---- MODULE Spec2Model ----
(***************************************************************************)
(* A model of sphinx_asciidoc/writer.py: AsciiDocTranslator, the docutils  *)
(* NodeVisitor that renders a document tree as AsciiDoc text.              *)
(*                                                                         *)
(* The document tree is the input.  It is held as the sequence of events   *)
(* that Node.walkabout produces for it: a "visit" event for a node, the    *)
(* events of its children in order, then its "depart" event.  A node is    *)
(* named by the position of its visit event.  One action models one        *)
(* visit_X / depart_X method; the translator's attributes are the fields   *)
(* of the record `self`, the output buffer self.body is a sequence of the  *)
(* appended fragments, and Python strings are TLA+ strings.                *)
(*                                                                         *)
(* `other` holds the translator instances that are not running: none in    *)
(* Spec, the second instance in SpecPair, where two translate() calls on   *)
(* the same tree take turns.                                               *)
(***************************************************************************)
EXTENDS Integers, Sequences, FiniteSets, TLC

VARIABLES doc, pos, path, self, raised, mark, left, other

vars == <<doc, pos, path, self, raised, mark, left, other>>

(***************************************************************************)
(* Bounds of the checked inputs.                                           *)
(***************************************************************************)
MaxSectionDepth == 6
MaxListDepth == 6
MaxNodes == 3
MaxDepth == 3
MaxTargets == 3
MaxTerms == 2

(***************************************************************************)
(* Python values.                                                          *)
(***************************************************************************)
None == "None"

Truthy(x) == x # None /\ x # ""

Get(node, attr) == IF attr \in DOMAIN node THEN node[attr] ELSE None

StartsWith(str, prefix) ==
    Len(str) >= Len(prefix) /\ SubSeq(str, 1, Len(prefix)) = prefix

Contains(str, sub) ==
    \E k \in 1..(Len(str) - Len(sub) + 1) : SubSeq(str, k, k + Len(sub) - 1) = sub

RECURSIVE Repeat(_, _)
Repeat(str, n) == IF n <= 0 THEN "" ELSE str \o Repeat(str, n - 1)

(***************************************************************************)
(* Document trees as walkabout event sequences.                            *)
(***************************************************************************)
Visit(n) == [ev |-> "visit", node |-> n]

Depart(n) == [ev |-> "depart", node |-> n]

Wrap(n, children) == <<Visit(n)>> \o children \o <<Depart(n)>>

Elem(kind) == [kind |-> kind]

TextNode(t) == Wrap([kind |-> "Text", text |-> t], <<>>)

Titled(t) == Wrap(Elem("title"), TextNode(t))

Para(t) == Wrap(Elem("paragraph"), TextNode(t))

DocumentOf(children) ==
    Wrap([kind |-> "document", source |-> "/src/index.rst"], children)

\* The position of the depart event that closes the node visited at i.
Close(i) ==
    LET RECURSIVE Scan(_, _)
        Scan(j, depth) ==
            IF doc[j].ev = "visit" THEN Scan(j + 1, depth + 1)
            ELSE IF depth = 1 THEN j
            ELSE Scan(j + 1, depth - 1)
    IN  Scan(i, 0)

\* node.traverse(include_self=False): the descendants of node i, in document
\* order, as the positions of their visit events.
Traverse(i) ==
    LET RECURSIVE Ascending(_)
        Ascending(S) ==
            IF S = {} THEN <<>>
            ELSE LET m == CHOOSE x \in S : \A y \in S : x <= y
                 IN  <<m>> \o Ascending(S \ {m})
    IN  Ascending({j \in (i + 1)..(Close(i) - 1) : doc[j].ev = "visit"})

\* node.parent, as the kind of the parent (the document node has none).
ParentKind(i) ==
    LET ps == {j \in 1..(i - 1) : doc[j].ev = "visit" /\ Close(j) > i}
    IN  IF ps = {} THEN None
        ELSE doc[CHOOSE j \in ps : \A k \in ps : k <= j].node.kind

NodeAt(i) == doc[i].node

KindAt(i) == doc[i].node.kind

\* node.children, as positions.
Children(i) ==
    LET RECURSIVE Siblings(_, _)
        Siblings(j, end) ==
            IF j >= end THEN <<>> ELSE <<j>> \o Siblings(Close(j) + 1, end)
    IN  Siblings(i + 1, Close(i))

\* str(node).startswith("<" + tag): an element prints as its start tag, a
\* Text node as its text.
StrStartsWith(j, tag) ==
    IF KindAt(j) = "Text" THEN StartsWith(NodeAt(j).text, "<" \o tag)
    ELSE KindAt(j) = tag

\* docutils TextElement kinds join the text of their children with "", the
\* other elements with a blank line.
RECURSIVE astext(_)
RECURSIVE JoinText(_, _)
JoinText(js, sep) ==
    IF js = <<>> THEN ""
    ELSE IF Len(js) = 1 THEN astext(js[1])
    ELSE astext(js[1]) \o sep \o JoinText(Tail(js), sep)

astext(j) ==
    IF KindAt(j) = "Text" THEN NodeAt(j).text
    ELSE JoinText(Children(j),
                  IF KindAt(j) \in {"title", "paragraph", "caption", "term",
                                    "reference", "target"}
                  THEN "" ELSE "\n\n")

\* Whether node i has an ancestor whose kind is in kinds.
Inside(i, kinds) ==
    \E j \in 1..(i - 1) : doc[j].ev = "visit" /\ Close(j) > i /\ KindAt(j) \in kinds

(***************************************************************************)
(* Module-level tables (writer.py lines 58-83).                            *)
(***************************************************************************)
sectionEquals ==
    (-1 :> "") @@ (0 :> "=") @@ (1 :> "==") @@ (2 :> "===") @@
    (3 :> "====") @@ (4 :> "=====") @@ (5 :> "======")

bulletIndent ==
    (1 :> "* ") @@ (2 :> "** ") @@ (3 :> "*** ") @@ (4 :> "**** ") @@
    (5 :> "***** ")

enumIndent ==
    (1 :> ". ") @@ (2 :> ".. ") @@ (3 :> "... ") @@ (4 :> ".... ") @@
    (5 :> "..... ")

(***************************************************************************)
(* AsciiDocTranslator.__init__: the translator's attributes.  lastFigure   *)
(* holds node references: positions in doc, 0 for the empty string.        *)
(***************************************************************************)
NewTranslator ==
    [ body |-> <<>>, section_level |-> 0, par_level |-> -1,
      lists |-> <<>>, listLevel |-> 0, bullet |-> "*",
      figures |-> 0, images |-> 0, idcount |-> 0,
      inTable |-> FALSE, turnsInList |-> 0, inDesc |-> FALSE,
      inList |-> FALSE, inField |-> FALSE, inImgLink |-> FALSE,
      inFigure |-> FALSE,
      lastFigure |-> [image |-> 0, caption |-> 0, legend |-> 0, ref |-> 0],
      inTopicContents |-> FALSE, extLinkActive |-> FALSE,
      inAdmonition |-> FALSE, tabColSpecs |-> <<>>,
      inLineBlock |-> FALSE, inLiteralBlock |-> FALSE, inToctree |-> FALSE,
      inUseless |-> FALSE, inGlossary |-> FALSE, sourceFile |-> "",
      idPool |-> <<>>, outputTOC |-> FALSE, defaultTableColAlign |-> "",
      defaultTableColWidths |-> FALSE,
      \* attributes that __init__ does not create and a rule later sets
      linkType |-> None, inAdminition |-> None ]

\* The outcome of a method: the translator afterwards, and the exception
\* that left the method ("" when it returned).
Ok(s) == [s |-> s, exc |-> ""]

Raise(s, e) == [s |-> s, exc |-> e]

\* self.body.append(fragment)
Emit(s, fragment) == [s EXCEPT !.body = Append(@, fragment)]

\* The join taken last fragment first.
translator_astext_reversed(s) ==
    LET RECURSIVE Join(_)
        Join(body) == IF body = <<>> THEN "" ELSE Join(Tail(body)) \o Head(body)
    IN  Join(s.body)

\* AsciiDocTranslator.astext: "".join(self.body).
translator_astext(s) ==
    LET RECURSIVE Join(_)
        Join(body) == IF body = <<>> THEN "" ELSE Head(body) \o Join(Tail(body))
    IN  Join(s.body)

\* The guard repeated in the rules that are silent inside the contents topic.
TocSuppressed(s) == s.inTopicContents /\ ~s.outputTOC

(***************************************************************************)
(* Structural rules.                                                       *)
(***************************************************************************)
\* str.split(sep)[0], sep one character.
RECURSIVE BeforeFirst(_, _)
BeforeFirst(str, sep) ==
    IF str = "" \/ Head(str) = sep THEN ""
    ELSE Head(str) \o BeforeFirst(Tail(str), sep)

\* AfterLast is str.split(sep)[-1], sep one character.
visit_document(s, i) ==
    LET source == Get(NodeAt(i), "source")
        RECURSIVE AfterLast(_, _)
        AfterLast(str, sep) ==
            IF ~Contains(str, sep) THEN str
            ELSE AfterLast(Tail(str), sep)
    IN  IF source = None THEN Raise(s, "AttributeError")
        ELSE Ok([s EXCEPT !.sourceFile = BeforeFirst(AfterLast(source, "/"), ".")])

\* visit_title reading the table one level too low.
visit_title_level_below(s, i) ==
    IF TocSuppressed(s) THEN Ok(s)
    ELSE IF ParentKind(i) = "document"
    THEN Ok(Emit(s, "\n\n" \o sectionEquals[0] \o " "))
    ELSE IF ParentKind(i) = "section"
    THEN LET level == s.section_level - 1
             tstr == IF level \in DOMAIN sectionEquals
                     THEN sectionEquals[level] ELSE "= "
         IN  Ok(Emit(s, "\n" \o tstr \o " "))
    ELSE IF ParentKind(i) = "table" THEN Ok(Emit(s, "\n."))
    ELSE Ok(s)

\* visit_title with the bare "=" as the token of an unsupported depth.
visit_title_bare_fallback(s, i) ==
    IF TocSuppressed(s) THEN Ok(s)
    ELSE IF ParentKind(i) = "document"
    THEN Ok(Emit(s, "\n\n" \o sectionEquals[0] \o " "))
    ELSE IF ParentKind(i) = "section"
    THEN LET level == s.section_level
             tstr == IF level \in DOMAIN sectionEquals
                     THEN sectionEquals[level] ELSE "="
         IN  Ok(Emit(s, "\n" \o tstr \o " "))
    ELSE IF ParentKind(i) = "table" THEN Ok(Emit(s, "\n."))
    ELSE Ok(s)

visit_title(s, i) ==
    IF TocSuppressed(s) THEN Ok(s)
    ELSE IF ParentKind(i) = "document"
    THEN Ok(Emit(s, "\n\n" \o sectionEquals[0] \o " "))
    ELSE IF ParentKind(i) = "section"
    THEN LET level == s.section_level
             tstr == IF level \in DOMAIN sectionEquals
                     THEN sectionEquals[level] ELSE "= "
         IN  Ok(Emit(s, "\n" \o tstr \o " "))
    ELSE IF ParentKind(i) = "table" THEN Ok(Emit(s, "\n."))
    ELSE Ok(s)

depart_title(s, i) ==
    IF TocSuppressed(s) THEN Ok(s)
    ELSE Ok(Emit(s, "\n"))

visit_Text(s, i) ==
    IF TocSuppressed(s) THEN Ok(s)
    ELSE IF s.inFigure THEN Ok(s)
    ELSE IF s.inLineBlock THEN Ok(Emit(s, NodeAt(i).text \o " +"))
    ELSE Ok(Emit(s, NodeAt(i).text))

visit_paragraph(s, i) ==
    LET t == [s EXCEPT !.par_level = @ + 1]
        nline == IF t.inDesc THEN ""
                 ELSE IF t.inField THEN ""
                 ELSE IF t.inTable \/ t.inList THEN ""
                 ELSE IF TocSuppressed(t) THEN ""
                 ELSE "\n"
    IN  Ok(Emit(t, nline))

depart_paragraph(s, i) ==
    LET t == [s EXCEPT !.par_level = @ - 1]
        nline == IF t.listLevel = -1 THEN "\n\n"
                 ELSE IF t.inTable THEN ""
                 ELSE IF t.inField THEN ""
                 ELSE IF TocSuppressed(t) THEN ""
                 ELSE "\n"
    IN  Ok(Emit(t, nline))

(***************************************************************************)
(* List rules.                                                             *)
(***************************************************************************)
\* list.pop(-1)
Pop(seq) == SubSeq(seq, 1, Len(seq) - 1)

\* x in list
In(x, seq) == \E k \in 1..Len(seq) : seq[k] = x

\* visit_bullet_list pushing the list without counting it.
visit_bullet_list_uncounted(s, i) ==
    IF TocSuppressed(s) THEN Ok(s)
    ELSE LET t == [s EXCEPT !.inList = TRUE, !.lists = Append(@, "bulleted")]
         IN  Ok(IF t.turnsInList = 0 THEN Emit(t, "\n") ELSE t)

visit_bullet_list(s, i) ==
    IF TocSuppressed(s) THEN Ok(s)
    ELSE LET t == [s EXCEPT !.inList = TRUE, !.lists = Append(@, "bulleted")]
             u == IF t.turnsInList = 0 THEN Emit(t, "\n") ELSE t
         IN  Ok([u EXCEPT !.turnsInList = @ + 1])

\* depart_bullet_list clearing inList whatever lists remain open.
depart_bullet_list_clearing(s, i) ==
    IF TocSuppressed(s) THEN Ok(s)
    ELSE LET t == Emit(s, "\n")
         IN  IF t.lists = <<>> THEN Raise(t, "IndexError")
             ELSE Ok([t EXCEPT !.lists = Pop(@), !.turnsInList = @ - 1,
                               !.inList = FALSE])

depart_bullet_list(s, i) ==
    IF TocSuppressed(s) THEN Ok(s)
    ELSE LET t == Emit(s, "\n")
         IN  IF t.lists = <<>> THEN Raise(t, "IndexError")
             ELSE LET u == [t EXCEPT !.lists = Pop(@), !.turnsInList = @ - 1]
                  IN  Ok(IF u.turnsInList <= 0 THEN [u EXCEPT !.inList = FALSE]
                         ELSE u)

visit_enumerated_list(s, i) ==
    IF s.turnsInList = 0 /\ "enumtype" \notin DOMAIN NodeAt(i)
    THEN Raise(s, "KeyError")
    ELSE LET t == [s EXCEPT !.inList = TRUE, !.lists = Append(@, "numbered")]
             u == IF s.turnsInList = 0
                  THEN Emit(t, "\n[" \o NodeAt(i).enumtype \o "]\n") ELSE t
         IN  Ok([u EXCEPT !.turnsInList = @ + 1])

depart_enumerated_list(s, i) ==
    IF s.lists = <<>> THEN Raise(s, "IndexError")
    ELSE LET u == [s EXCEPT !.lists = Pop(@), !.turnsInList = @ - 1]
         IN  Ok(IF u.turnsInList <= 0 THEN [u EXCEPT !.inList = FALSE] ELSE u)

\* "toctree" in str(classes): the class names that contain "toctree".
HasToctreeClass(classes) ==
    classes # None /\ \E k \in 1..Len(classes) : Contains(classes[k], "toctree")

visit_list_item(s, i) ==
    IF TocSuppressed(s) THEN Ok(s)
    ELSE LET classes == Get(NodeAt(i), "classes")
             level == Len(s.lists)
         IN  IF HasToctreeClass(classes) THEN Ok(Emit(s, ""))
             ELSE IF In("bulleted", s.lists)
             THEN IF level \in DOMAIN bulletIndent
                  THEN Ok(Emit(s, bulletIndent[level]))
                  ELSE Raise(s, "KeyError")
             ELSE IF In("numbered", s.lists)
             THEN IF level \in DOMAIN enumIndent
                  THEN Ok(Emit(s, enumIndent[level]))
                  ELSE Raise(s, "KeyError")
             ELSE Ok(Emit(s, "\nList indentation error!\n"))

depart_list_item(s, i) ==
    IF TocSuppressed(s) THEN Ok(s)
    ELSE IF s.inTable THEN Ok(Emit(s, ""))
    ELSE Ok(Emit(s, "\n"))

(***************************************************************************)
(* Topics, targets, glossaries.                                            *)
(***************************************************************************)
\* str(node).startswith('<topic classes="contents" ids="contents"')
visit_topic(s, i) ==
    IF /\ Get(NodeAt(i), "classes") = <<"contents">>
       /\ Get(NodeAt(i), "ids") = <<"contents">>
    THEN Ok(Emit([s EXCEPT !.inTopicContents = TRUE], ":toc:"))
    ELSE Ok(s)

depart_topic(s, i) == Ok(Emit([s EXCEPT !.inTopicContents = FALSE], "\n"))

IdDeclaration(refid) == "[id=\"" \o refid \o "\"]"

\* The loop of visit_target recording the suffixed identifier unchecked.
RegisterIdUnchecked(s, refid) ==
    IF ~In(refid, s.idPool)
    THEN [Emit(s, IdDeclaration(refid)) EXCEPT !.idPool = Append(@, refid)]
    ELSE LET again == refid \o "-duplicate"
         IN  [Emit(Emit(s, IdDeclaration(again)), IdDeclaration(again))
                 EXCEPT !.idPool = Append(@, again)]

\* The loop leaving with the free candidate declared but not recorded.
RegisterIdUnrecorded(s, refid) ==
    LET RECURSIVE Loop(_, _)
        Loop(t, candidate) ==
            IF ~In(candidate, t.idPool) THEN Emit(t, IdDeclaration(candidate))
            ELSE LET again == candidate \o "-duplicate"
                 IN  Loop(Emit(t, IdDeclaration(again)), again)
    IN  Loop(s, refid)

\* The while loop of visit_target, one iteration per call.
RECURSIVE RegisterId(_, _)
RegisterId(s, refid) ==
    IF ~In(refid, s.idPool)
    THEN [Emit(s, IdDeclaration(refid)) EXCEPT !.idPool = Append(@, refid)]
    ELSE LET again == refid \o "-duplicate"
         IN  RegisterId(Emit(s, IdDeclaration(again)), again)

visit_target(s, i) ==
    LET refid == Get(NodeAt(i), "refid")
        ids == Get(NodeAt(i), "ids")
        refuri == Get(NodeAt(i), "refuri")
    IN  IF Truthy(refid) THEN Ok(RegisterId(s, refid))
        ELSE IF ids # None /\ ids # <<>> /\ Truthy(refuri) THEN Ok(Emit(s, ""))
        ELSE Ok(Emit(s, "Warning: Problem with targets!"))

visit_term(s, i) ==
    IF s.inGlossary
    THEN LET t == [s EXCEPT !.section_level = @ + 1]
             tstr == IF t.section_level \in DOMAIN sectionEquals
                     THEN sectionEquals[t.section_level] ELSE "= "
         IN  Ok(Emit(t, "\n\n" \o tstr \o " "))
    ELSE Ok(Emit(s, ""))

depart_definition(s, i) ==
    LET t == Emit(s, "\n\n")
    IN  Ok(IF t.inGlossary THEN [t EXCEPT !.section_level = @ - 1] ELSE t)

(***************************************************************************)
(* Admonitions.                                                            *)
(***************************************************************************)
\* The body shared by visit_note, visit_tip, visit_warning, visit_important
\* and visit_caution, which differ in the label.
OpenAdmonition(s, label) ==
    LET t == [s EXCEPT !.inAdmonition = TRUE]
        nline == IF t.inList THEN "+\n[" \o label \o "]\n"
                 ELSE "\n[" \o label \o "]\n"
        mline == "====\n"
    IN  Emit(t, nline \o mline)

\* The lines shared by the five depart rules, up to the last assignment.
CloseAdmonition(s) ==
    LET nline == IF s.inList THEN "====\n\n" ELSE "====\n"
    IN  Emit(s, nline)

visit_note(s, i) == Ok(OpenAdmonition(s, "NOTE"))

depart_note(s, i) == Ok([CloseAdmonition(s) EXCEPT !.inAdmonition = FALSE])

visit_tip(s, i) == Ok(OpenAdmonition(s, "TIP"))

depart_tip(s, i) == Ok([CloseAdmonition(s) EXCEPT !.inAdmonition = FALSE])

visit_warning(s, i) == Ok(OpenAdmonition(s, "WARNING"))

depart_warning(s, i) == Ok([CloseAdmonition(s) EXCEPT !.inAdmonition = FALSE])

visit_important(s, i) == Ok(OpenAdmonition(s, "IMPORTANT"))

depart_important(s, i) == Ok([CloseAdmonition(s) EXCEPT !.inAdmonition = FALSE])

visit_caution(s, i) == Ok(OpenAdmonition(s, "CAUTION"))

\* writer.py line 684 assigns self.inAdminition, not self.inAdmonition.
depart_caution(s, i) == Ok([CloseAdmonition(s) EXCEPT !.inAdminition = FALSE])

(***************************************************************************)
(* References and images.                                                  *)
(***************************************************************************)
\* The if/elif chain of visit_reference, after the image look-ahead.
\* Fragment is uri.split("#")[1], the text between the first and the second
\* "#", or uri.split("#")[0] when there is no "#".
ReferenceBranch(s, i) ==
    LET RECURSIVE AfterFirst(_, _)
        AfterFirst(str, sep) ==
            IF str = "" THEN ""
            ELSE IF Head(str) = sep THEN Tail(str)
            ELSE AfterFirst(Tail(str), sep)
        Fragment(u) ==
            IF Contains(u, "#") THEN BeforeFirst(AfterFirst(u, "#"), "#")
            ELSE u
        NeedsLinkMacro(u) ==
            \/ Contains(u, " ") \/ Contains(u, "^") \/ Contains(u, "__")
            \/ StartsWith(u, "{filename}")
            \/ StartsWith(u, "/")
        uri == Get(NodeAt(i), "refuri")
        refid == Get(NodeAt(i), "refid")
        name == Get(NodeAt(i), "name")
        aname == Get(NodeAt(i), "anchorname")
        internal == "internal" \in DOMAIN NodeAt(i) /\ NodeAt(i).internal = TRUE
    IN  IF TocSuppressed(s) THEN s
        ELSE IF s.inFigure THEN s
        ELSE IF s.inImgLink THEN Emit(s, "\n[link::" \o uri \o "]")
        ELSE IF s.inLiteralBlock THEN s
        ELSE IF internal /\ aname = "" /\ s.inToctree
        THEN Emit([s EXCEPT !.linkType = "include"],
                  "include::" \o uri \o "[leveloffset=+1][")
        ELSE IF Truthy(uri) /\ Truthy(name)
        THEN Emit([s EXCEPT !.linkType = "link"],
                  IF NeedsLinkMacro(uri) THEN "link:++" \o uri \o "["
                  ELSE uri \o "[")
        ELSE IF Truthy(refid)
        THEN LET t == [s EXCEPT !.linkType = "refx"]
             IN  IF ~t.inToctree THEN Emit(t, "xref:" \o refid \o "[") ELSE t
        ELSE IF Truthy(uri)
        THEN LET t == [s EXCEPT !.linkType = "refx"]
                 frag == Fragment(uri)
             IN  IF Contains(frag, ".adoc")
                 THEN Emit(t, "xref:fileref=" \o frag \o "[")
                 ELSE IF StartsWith(frag, "mailto") \/ StartsWith(frag, "http")
                 THEN Emit(t, frag \o "[")
                 ELSE IF aname = "#" \o frag
                 THEN [Emit(t, "\n//") EXCEPT !.inUseless = TRUE]
                 ELSE Emit(t, "xref:" \o frag \o "[")
        ELSE s

visit_reference(s, i) ==
    LET t == [s EXCEPT !.extLinkActive = TRUE, !.linkType = None]
        below == Traverse(i)
    IN  IF below = <<>> THEN Raise(t, "UnboundLocalError")
        ELSE LET u == IF StrStartsWith(below[Len(below)], "image")
                      THEN [t EXCEPT !.inImgLink = TRUE] ELSE t
             IN  Ok(ReferenceBranch(u, i))

depart_reference(s, i) ==
    IF TocSuppressed(s) THEN Ok(s)
    ELSE IF s.inFigure THEN Ok(s)
    ELSE IF s.inImgLink THEN Ok([s EXCEPT !.inImgLink = FALSE])
    ELSE IF ~s.inLiteralBlock THEN Ok(Emit(s, "]"))
    ELSE Ok(s)

visit_image(s, i) ==
    IF s.inFigure THEN Ok(s)
    ELSE LET alt == IF Get(NodeAt(i), "alt") = None THEN ""
                    ELSE NodeAt(i).alt
             uri == Get(NodeAt(i), "uri")
         IN  Ok(Emit(s, "\nimage::" \o uri \o "[" \o alt \o "]"))

(***************************************************************************)
(* Tables.                                                                 *)
(***************************************************************************)
visit_tgroup(s, i) ==
    LET node == NodeAt(i)
        default == s.defaultTableColAlign
        \* the descendants n with str(n).startswith("<colspec")
        colspecs == SelectSeq(Traverse(i), LAMBDA j : StrStartsWith(j, "colspec"))
        RECURSIVE Sum(_)
        Sum(js) == IF js = <<>> THEN 0
                   ELSE NodeAt(js[1]).colwidth + Sum(Tail(js))
        tableWidth == Sum(colspecs)
        \* round(c / tableWidth * 100): to the nearest integer, a tie to the
        \* even one
        Round(c) ==
            LET q == (100 * c) \div tableWidth
                r == (100 * c) % tableWidth
            IN  IF 2 * r < tableWidth THEN q
                ELSE IF 2 * r > tableWidth THEN q + 1
                ELSE IF q % 2 = 0 THEN q ELSE q + 1
        clist == IF s.defaultTableColWidths
                 THEN [k \in 1..Len(colspecs) |-> Round(NodeAt(colspecs[k]).colwidth)]
                 ELSE <<>>
        fresh == s.tabColSpecs = <<>>
        specs == IF fresh THEN [k \in 1..node.cols |-> default]
                 ELSE s.tabColSpecs
        Lower(spec) == IF spec = "R" THEN "r" ELSE IF spec = "C" THEN "c" ELSE spec
        \* for spec in specs: i = specs.index(spec); specs[i] = ...
        RECURSIVE Update(_, _)
        Update(list, k) ==
            IF k > Len(list) THEN list
            ELSE LET spec == list[k]
                     first == CHOOSE j \in 1..k :
                                  /\ list[j] = spec
                                  /\ \A h \in 1..(j - 1) : list[h] # spec
                     to == IF Lower(spec) = "r" THEN ">"
                           ELSE IF Lower(spec) = "c" THEN "^"
                           ELSE default
                 IN  Update([list EXCEPT ![first] = to], k + 1)
        updated == Update(specs, 1)
        \* specs is self.tabColSpecs itself unless the default list replaced it
        t == IF fresh THEN s ELSE [s EXCEPT !.tabColSpecs = updated]
        RECURSIVE Line(_)
        Line(k) ==
            IF k > Len(clist) THEN ""
            ELSE updated[k] \o ToString(clist[k]) \o "%"
                     \o (IF k = Len(clist) THEN "" ELSE ",") \o Line(k + 1)
        cline == Line(1)
        specline == IF cline # "" THEN "[cols=\"" \o cline \o "\",options=\"header\"]\n"
                    ELSE "[options=\"header\"]\n"
    IN  IF "cols" \notin DOMAIN node THEN Raise(s, "KeyError")
        ELSE IF /\ s.defaultTableColWidths
                /\ \E k \in 1..Len(colspecs) : KindAt(colspecs[k]) = "Text"
        THEN Raise(s, "TypeError")
        ELSE IF /\ s.defaultTableColWidths
                /\ \E k \in 1..Len(colspecs) : "colwidth" \notin DOMAIN NodeAt(colspecs[k])
        THEN Raise(s, "KeyError")
        ELSE IF s.defaultTableColWidths /\ colspecs # <<>> /\ tableWidth = 0
        THEN Raise(s, "ZeroDivisionError")
        ELSE IF Len(updated) < Len(clist) THEN Raise(t, "IndexError")
        ELSE Ok(Emit(t, specline \o "|===\n"))

(***************************************************************************)
(* Figures.                                                                *)
(***************************************************************************)
NoFigure == [image |-> 0, caption |-> 0, legend |-> 0, ref |-> 0]

\* The loop of visit_figure over node.traverse(include_self=False).
RECURSIVE Stash(_, _)
Stash(fig, js) ==
    IF js = <<>> THEN fig
    ELSE LET n == js[1]
             next == IF StrStartsWith(n, "image") THEN [fig EXCEPT !.image = n]
                     ELSE IF StrStartsWith(n, "caption")
                     THEN [fig EXCEPT !.caption = n]
                     ELSE IF StrStartsWith(n, "legend")
                     THEN [fig EXCEPT !.legend = n]
                     ELSE IF StrStartsWith(n, "reference")
                     THEN [fig EXCEPT !.ref = n]
                     ELSE fig
         IN  Stash(next, Tail(js))

visit_figure(s, i) ==
    Ok([s EXCEPT !.inFigure = TRUE, !.lastFigure = Stash(@, Traverse(i))])

\* The title line of depart_figure.
FigureTitle(fig) ==
    LET cap == IF fig.caption = 0 THEN "" ELSE astext(fig.caption)
        leg == IF fig.legend = 0 THEN "" ELSE astext(fig.legend)
        esc == IF StartsWith(cap, ".") THEN "\\" \o cap ELSE cap
    IN  "\n." \o esc \o " " \o leg \o "\n"

FigureLink(fig) == "[link=" \o Get(NodeAt(fig.ref), "refuri") \o "]\n"

FigureImage(fig) ==
    LET alt == Get(NodeAt(fig.image), "alt")
    IN  "image::" \o Get(NodeAt(fig.image), "uri") \o "["
            \o (IF Truthy(alt) THEN alt ELSE "") \o "]\n"

depart_figure(s, i) ==
    LET fig == s.lastFigure
        a == IF fig.caption # 0 \/ fig.legend # 0
             THEN Emit(s, FigureTitle(fig)) ELSE s
    IN  \* a Text node in the ref or image slot has no get()
        IF fig.ref # 0 /\ KindAt(fig.ref) = "Text" THEN Raise(a, "AttributeError")
        ELSE LET b == IF fig.ref # 0 THEN Emit(a, FigureLink(fig)) ELSE a
             IN  IF fig.image # 0 /\ KindAt(fig.image) = "Text"
                 THEN Raise(b, "AttributeError")
                 ELSE LET c == IF fig.image # 0 THEN Emit(b, FigureImage(fig))
                               ELSE b
                      IN  Ok([c EXCEPT !.inFigure = FALSE,
                                       !.lastFigure = NoFigure])

visit_caption(s, i) == IF s.inFigure THEN Ok(s) ELSE Ok(Emit(s, "\n:toctitle: "))

depart_caption(s, i) == IF ~s.inFigure THEN Ok(Emit(s, "\n\n")) ELSE Ok(s)

visit_legend(s, i) == IF ~s.inFigure THEN Ok(Emit(s, "LEGEND:")) ELSE Ok(s)

depart_legend(s, i) == IF ~s.inFigure THEN Ok(Emit(s, ":LEGEND")) ELSE Ok(s)

(***************************************************************************)
(* The checked documents.  Each family is a set of event sequences for the *)
(* children of the document node.                                          *)
(***************************************************************************)
\* The content model: whether a node of kind parent may hold a child of kind
\* child.
CanContain(parent, child) ==
    LET Blocks ==
            {"paragraph", "bullet_list", "enumerated_list", "note", "tip",
             "warning", "important", "caution"}
    IN
    CASE parent \in {"document", "section"} ->
             child \in Blocks \cup {"section", "title", "topic"}
      [] parent = "topic" -> child \in {"title", "bullet_list", "enumerated_list"}
      [] parent \in {"bullet_list", "enumerated_list"} -> child = "list_item"
      [] parent = "list_item" -> child \in Blocks
      [] parent \in {"note", "tip", "warning", "important", "caution"} ->
             child \in Blocks
      [] parent \in {"title", "paragraph"} -> child = "Text"
      [] OTHER -> FALSE

\* The forests of at most n nodes drawn from nodes, nested at most d deep,
\* that a node of kind parent may hold.
RECURSIVE Forests(_, _, _, _)
Forests(nodes, parent, d, n) ==
    IF d = 0 \/ n = 0 THEN {<<>>}
    ELSE {<<>>} \cup
         UNION { UNION { { Wrap(x, c) \o r :
                             c \in Forests(nodes, x.kind, d - 1, k),
                             r \in Forests(nodes, parent, d, n - 1 - k) }
                       : k \in 0..(n - 1) }
               : x \in {y \in nodes : CanContain(parent, y.kind)} }

EnumeratedList == [kind |-> "enumerated_list", enumtype |-> "arabic"]

\* Sections, titles, the contents topic and another topic, lists.
OutlineFamily ==
    Forests({Elem("section"), Elem("title"),
             [kind |-> "topic", classes |-> <<"contents">>,
              ids |-> <<"contents">>],
             [kind |-> "topic", classes |-> <<"note">>, ids |-> <<"t1">>],
             Elem("bullet_list"), EnumeratedList, Elem("list_item")},
            "document", MaxDepth, MaxNodes)

\* Lists, their items, the items of a toctree, admonitions.
ListFamily ==
    Forests({Elem("bullet_list"), EnumeratedList, Elem("list_item"),
             [kind |-> "list_item", classes |-> <<"toctree-l1">>],
             Elem("note"), Elem("tip"), Elem("warning"), Elem("important"),
             Elem("caution")},
            "document", MaxDepth, MaxNodes)

\* Sections nested d deep, each with its title.
SectionFamily ==
    LET RECURSIVE SectionNest(_)
        SectionNest(d) ==
            IF d = 0 THEN <<>>
            ELSE Wrap(Elem("section"), Titled("S") \o SectionNest(d - 1))
    IN  { t \o SectionNest(d) :
            t \in {<<>>, Titled("D")}, d \in 0..MaxSectionDepth }

\* Lists nested as deep as kinds is long, one item in each.
DeepListFamily ==
    LET RECURSIVE ListNest(_)
        ListNest(kinds) ==
            IF kinds = <<>> THEN Para("x")
            ELSE Wrap(kinds[1], Wrap(Elem("list_item"), ListNest(Tail(kinds))))
    IN  UNION { { ListNest(kinds) :
                    kinds \in [1..d -> {Elem("bullet_list"), EnumeratedList}] }
              : d \in 1..MaxListDepth }

\* Definition lists, in a glossary and outside one.
\* One entry, an entry whose definition holds a definition list or a
\* glossary, two entries in a row; a section follows or not.
GlossaryFamily ==
    LET RECURSIVE Terms(_)
        Terms(k) ==
            IF k = 0 THEN <<>>
            ELSE Wrap(Elem("term"), TextNode("t")) \o Terms(k - 1)
        Entry(k, content) ==
            Wrap(Elem("definition_list_item"),
                 Terms(k) \o Wrap(Elem("definition"), content))
        DefinitionList(entries) == Wrap(Elem("definition_list"), entries)
        Glossary(entries) == Wrap(Elem("glossary"), DefinitionList(entries))
        SimpleEntries == { Entry(k, Para("d")) : k \in 1..MaxTerms }
        NestingEntries ==
            { Entry(k, Para("d") \o inner) :
                k \in 1..MaxTerms,
                inner \in { DefinitionList(e) : e \in SimpleEntries }
                            \cup { Glossary(e) : e \in SimpleEntries } }
        EntryRuns ==
            SimpleEntries \cup NestingEntries
                \cup { e1 \o e2 : e1 \in SimpleEntries, e2 \in SimpleEntries }
    IN  { Wrap(Elem("section"), Titled("G") \o g \o tail) :
            g \in { Glossary(e) : e \in EntryRuns }
                    \cup { DefinitionList(e) : e \in EntryRuns },
            tail \in {<<>>, Wrap(Elem("section"), Titled("U"))} }

\* Runs of target nodes.
TargetFamily ==
    LET TargetNodes ==
            { [kind |-> "target", ids |-> <<>>, refid |-> "a"],
              [kind |-> "target", ids |-> <<>>, refid |-> "b"],
              [kind |-> "target", ids |-> <<>>, refid |-> "a-duplicate"],
              [kind |-> "target", ids |-> <<"x">>, refuri |-> "http://x"],
              [kind |-> "target", ids |-> <<>>] }
        RECURSIVE TargetRuns(_)
        TargetRuns(n) ==
            IF n = 0 THEN {<<>>}
            ELSE {<<>>} \cup { Wrap(t, <<>>) \o r :
                                  t \in TargetNodes, r \in TargetRuns(n - 1) }
    IN  TargetRuns(MaxTargets)

\* Figures: the parts in every order, a figure inside a legend, two figures
\* in a row.
Image(uri) == Wrap([kind |-> "image", uri |-> uri, alt |-> "Alt"], <<>>)

Reference(uri, content) == Wrap([kind |-> "reference", refuri |-> uri], content)

FigureFamily ==
    LET Opt(S) == {{}} \cup { {x} : x \in S }
        RECURSIVE Orders(_)
        Orders(parts) ==
            IF parts = {} THEN {<<>>}
            ELSE UNION { { part \o rest : rest \in Orders(parts \ {part}) }
                       : part \in parts }
        InnerFigures ==
            { Wrap(Elem("figure"), c \o r \o Image("in.png")) :
                c \in {<<>>, Wrap(Elem("caption"), TextNode("Inner"))},
                r \in {<<>>, Reference("http://in", TextNode("in"))} }
        FigurePartSets ==
            { a \cup b \cup c \cup d :
                a \in Opt({Image("pic.png")}),
                b \in Opt({Wrap(Elem("caption"), TextNode("Result")), Wrap(Elem("caption"), TextNode(".dot"))}),
                c \in Opt({Reference("http://x", TextNode("x")),
                           Reference("http://x", Image("ref.png"))}),
                d \in Opt({Wrap(Elem("legend"), Para("L"))}
                          \cup { Wrap(Elem("legend"), f) : f \in InnerFigures }) }
    IN  UNION { { Wrap(Elem("figure"), parts) : parts \in Orders(ps) } : ps \in FigurePartSets }
            \cup { f \o Para("p") \o g : f \in InnerFigures, g \in InnerFigures }

\* The same nodes outside a figure.
InlineFamily ==
    { Image("pic.png"), Wrap(Elem("caption"), TextNode("Contents")), Wrap(Elem("legend"), Para("L")),
      Wrap(Elem("paragraph"), Reference("http://x", TextNode("x"))),
      Wrap(Elem("paragraph"),
           Reference("http://x", Image("ref.png"))
               \o Reference("http://y", TextNode("y"))),
      Wrap(Elem("paragraph"), Reference("http://x", <<>>)) }

\* References with every subset of the attributes visit_reference reads,
\* around a text or an image: in a paragraph, in the paragraph of a toctree
\* (a compound node), in a paragraph that follows a figure whose reference
\* wraps an image, and in a literal block.
ReferenceFamily ==
    LET Attrs(uri, aname) ==
            [kind |-> "reference", refuri |-> uri, refid |-> "r", name |-> "n",
             anchorname |-> aname, internal |-> TRUE]
        Nodes ==
            { [k \in {"kind"} \cup S |-> Attrs(uri, aname)[k]] :
                S \in SUBSET {"refuri", "refid", "name", "anchorname", "internal"},
                uri \in {"o.adoc#s", "http://x#f", "http://x", "#top", "/a b"},
                aname \in {"", "#top"} }
        InParagraph(r) == Wrap(Elem("paragraph"), r)
        InToctree(r) == Wrap(Elem("compound"), Wrap(Elem("paragraph"), r))
        AfterFigure(r) ==
            Wrap(Elem("figure"), Reference("http://x", Image("ref.png")))
                \o Wrap(Elem("paragraph"), r)
        InLiteralBlock(r) == Wrap(Elem("literal_block"), r)
    IN  UNION { { InParagraph(Wrap(n, TextNode("x"))),
                  InParagraph(Wrap(n, Image("ref.png"))),
                  InToctree(Wrap(n, TextNode("x"))),
                  InToctree(Wrap(n, Image("ref.png"))),
                  AfterFigure(Wrap(n, TextNode("x"))),
                  InLiteralBlock(Wrap(n, TextNode("x"))) } : n \in Nodes }
            \cup { Wrap([kind |-> "topic", classes |-> <<"contents">>,
                         ids |-> <<"contents">>],
                        InParagraph(Reference("http://x", Image("ref.png"))))
                       \o InParagraph(Reference("http://x", TextNode("x"))) }

\* Tables: one table, with and without a tabular_col_spec before it; a
\* table with a spec followed by a table without one; a table in a cell of
\* another table.
TableFamily ==
    LET RECURSIVE Colspecs(_)
        Colspecs(ws) ==
            IF ws = <<>> THEN <<>>
            ELSE Wrap([kind |-> "colspec", colwidth |-> ws[1]], <<>>)
                     \o Colspecs(Tail(ws))
        Table(ws, content) ==
            Wrap(Elem("table"),
                 Wrap([kind |-> "tgroup", cols |-> Len(ws)],
                      Colspecs(ws)
                          \o Wrap(Elem("tbody"),
                                  Wrap(Elem("row"), Wrap(Elem("entry"), content)))))
        ColSpec(spec) == Wrap([kind |-> "tabular_col_spec", spec |-> spec], <<>>)
        Widths == {<<30, 70>>, <<1, 7>>, <<1, 1, 1>>}
        Specs == {"|l|r|", "|r|c|", "|R|>|", "|c|", "|r|c|l|"}
        Heads == {<<>>} \cup { ColSpec(spec) : spec \in Specs }
    IN  { h \o Table(ws, Para("a")) : h \in Heads, ws \in Widths }
            \cup UNION { { h \o Table(ws, Para("a")) \o Table(wide, Para("b")) :
                              h \in Heads, wide \in {ws, <<1, 1, 1>>} } :
                            ws \in Widths }
            \cup { h \o Table(ws, Table(<<1, 1>>, Para("n"))) :
                      h \in Heads, ws \in Widths }

\* An admonition of each kind after an inner list has closed, and before
\* and after a list.
AdmonitionFamily ==
    { Wrap(outer, Wrap(Elem("list_item"),
                       Wrap(inner, Wrap(Elem("list_item"), Para("x")))
                           \o Wrap(a, Para("y"))))
          \o Wrap(a, Para("z")) :
        outer \in {Elem("bullet_list"), EnumeratedList},
        inner \in {Elem("bullet_list"), EnumeratedList},
        a \in {Elem("note"), Elem("tip"), Elem("warning"), Elem("important"),
               Elem("caution")} }

\* Nodes of a kind the translator has no rule for, nodes that lack an
\* attribute or a child their rule reads, and a topic inside the contents
\* topic (the reST parser builds none; a tree built by a transform can
\* hold one, and the translator takes any tree).
EdgeFamily ==
    LET Contents(content) ==
            Wrap([kind |-> "topic", classes |-> <<"contents">>, ids |-> <<"contents">>],
                 content)
        Plain == Wrap([kind |-> "topic", classes |-> <<"note">>, ids |-> <<"t1">>],
                      Titled("N"))
        Body == Wrap(Elem("tbody"), Wrap(Elem("row"), Wrap(Elem("entry"), Para("a"))))
        Col(w) == Wrap([kind |-> "colspec", colwidth |-> w], <<>>)
    IN  { Wrap(Elem("paragraph"), Wrap(Elem("math"), TextNode("x"))),
          Wrap(Elem("math_block"), TextNode("x")) \o Para("a"),
          Wrap(Elem("productionlist"), <<>>) \o Para("a"),
          Wrap(Elem("productionlist"), Wrap(Elem("production"), TextNode("x"))),
          Wrap(Elem("enumerated_list"), Wrap(Elem("list_item"), Para("a"))),
          Wrap(Elem("table"), Wrap(Elem("tgroup"), Col(1) \o Body)),
          Wrap(Elem("table"),
               Wrap([kind |-> "tgroup", cols |-> 1],
                    Wrap(Elem("colspec"), <<>>) \o Body)),
          Wrap(Elem("tabular_col_spec"), <<>>)
              \o Wrap(Elem("table"), Wrap([kind |-> "tgroup", cols |-> 1], Col(1) \o Body)),
          Wrap(Elem("paragraph"), Wrap([kind |-> "reference", refuri |-> "http://x"], <<>>)),
          Wrap(Elem("paragraph"),
               Wrap([kind |-> "footnote_reference", refid |-> "id1"], TextNode("1"))),
          Wrap(Elem("paragraph"), Wrap(Elem("footnote_reference"), TextNode("1"))),
          Contents(Plain \o Wrap(Elem("bullet_list"), Wrap(Elem("list_item"), Para("a")))),
          Contents(Wrap(Elem("bullet_list"), Wrap(Elem("list_item"), Plain))) }

\* Line blocks, flat and nested, with text before, inside and after them,
\* and literal blocks outside and inside lists and admonitions.
BlockFamily ==
    LET Line(t) == Wrap(Elem("line"), TextNode(t))
        LineBlock(lines) == Wrap(Elem("line_block"), lines)
        Literal == Wrap(Elem("literal_block"), TextNode("c"))
        Item(content) == Wrap(Elem("list_item"), content)
        Lists == {Elem("bullet_list"), EnumeratedList}
        Admonitions == {Elem("note"), Elem("tip"), Elem("warning"),
                        Elem("important"), Elem("caution")}
    IN  { Para("p") \o LineBlock(Line("a") \o Line("b")) \o Para("q"),
          LineBlock(Line("a") \o LineBlock(Line("n")) \o Line("b")),
          LineBlock(LineBlock(Line("n")) \o Line("b")) \o Para("q"),
          LineBlock(Line("a") \o LineBlock(Line("n"))),
          Literal \o Para("q") }
            \cup { Wrap(l, Item(Para("p") \o Literal)) : l \in Lists }
            \cup { Wrap(l, Item(Wrap(m, Item(Literal)))) : l \in Lists, m \in Lists }
            \cup { Wrap(a, Literal) : a \in Admonitions }
            \cup { Wrap(l, Item(Wrap(a, Literal))) : l \in Lists, a \in Admonitions }
            \cup { Wrap(a, Para("p")) \o Wrap(l, Item(Literal)) :
                      l \in Lists, a \in Admonitions }
            \cup { Wrap(a, Para("p")) \o Literal : a \in Admonitions }

Documents ==
    { DocumentOf(f) :
        f \in OutlineFamily \cup ListFamily \cup SectionFamily \cup DeepListFamily
                \cup GlossaryFamily \cup TargetFamily \cup FigureFamily
                \cup InlineFamily \cup AdmonitionFamily \cup ReferenceFamily
                \cup TableFamily \cup EdgeFamily \cup BlockFamily }
        \cup { Wrap(Elem("document"), Para("a")) }

(***************************************************************************)
(* Node.walkabout: dispatch_visit, the children, dispatch_departure.  An   *)
(* exception leaves the traversal.  path is the recursion stack: for each  *)
(* open node its position and the nesting counters at its entry.  mark is  *)
(* the length of the output buffer before the last rule ran, left the      *)
(* stack entry of the node whose exit rule ran last.  The two table        *)
(* settings that __init__ fixes ("things that should be options") are the  *)
(* ones a host changes; documents with a table run under each setting.     *)
(***************************************************************************)
Init ==
    /\ doc \in Documents
    /\ pos = 1
    /\ path = <<>>
    /\ self \in IF \E k \in 1..Len(doc) : doc[k].node.kind = "tgroup"
                THEN { [NewTranslator EXCEPT !.defaultTableColWidths = widths,
                                             !.defaultTableColAlign = align] :
                         widths \in BOOLEAN, align \in {"", "<"} }
                ELSE {NewTranslator}
    /\ raised = ""
    /\ mark = 0
    /\ left = [at |-> 0, section_level |-> 0, lists |-> 0]
    /\ other = <<>>

\* The node kinds AsciiDocTranslator has a visit_ method for.
VisitRules ==
    { "Text", "abbreviation", "attribution", "author", "block_quote",
      "bullet_list", "caption", "caution", "centered", "citation",
      "citation_reference", "classifier", "colspec", "comment",
      "compact_paragraph", "compound", "container", "contents", "copyright",
      "date", "definition", "definition_list", "definition_list_item", "desc",
      "desc_addname", "desc_annotation", "desc_content", "desc_name",
      "desc_optional", "desc_parameter", "desc_parameterlist", "desc_returns",
      "desc_signature", "desc_signature_line", "desc_type", "description",
      "docinfo", "doctest_block", "document", "download_reference",
      "emphasis", "entry", "enumerated_list", "field", "field_body",
      "field_list", "field_name", "figure", "footnote", "footnote_reference",
      "glossary", "graphviz", "hlist", "hlistcol", "image", "important",
      "index", "inline", "label", "legend", "line", "line_block", "list_item",
      "literal", "literal_block", "literal_emphasis", "literal_strong",
      "manpage", "meta", "note", "option", "option_argument", "option_group",
      "option_list", "option_list_item", "option_string", "paragraph",
      "problematic", "productionlist", "raw", "reference", "revision", "row",
      "rubric", "section", "seealso", "sidebar", "strong", "subscript",
      "substitution_definition", "subtitle", "superscript", "system_message",
      "table", "tabular_col_spec", "target", "tbody", "term", "tgroup",
      "thead", "tip", "title", "title_reference", "toctree", "todo_node",
      "topic", "transition", "version", "versionmodified", "warning" }

Top == path[Len(path)].at

Walk(outcome) ==
    /\ self' = outcome.s
    /\ raised' = outcome.exc
    /\ mark' = Len(self.body)
    /\ pos' = pos + 1
    /\ UNCHANGED <<doc, other>>

Entering(kind) ==
    /\ raised = ""
    /\ pos <= Len(doc)
    /\ doc[pos].ev = "visit"
    /\ doc[pos].node.kind = kind

Entered(outcome) ==
    /\ Walk(outcome)
    /\ path' = Append(path, [at |-> pos, section_level |-> self.section_level,
                             lists |-> Len(self.lists)])
    /\ UNCHANGED left

Leaving(kind) ==
    /\ raised = ""
    /\ pos <= Len(doc)
    /\ doc[pos].ev = "depart"
    /\ doc[pos].node.kind = kind

Exited(outcome) ==
    /\ Walk(outcome)
    /\ path' = Pop(path)
    /\ left' = path[Len(path)]

VisitDocument == Entering("document") /\ Entered(visit_document(self, pos))

DepartDocument == Leaving("document") /\ Exited(Ok(self))

VisitTitle == Entering("title") /\ Entered(visit_title(self, pos))

DepartTitle == Leaving("title") /\ Exited(depart_title(self, Top))

VisitText == Entering("Text") /\ Entered(visit_Text(self, pos))

DepartText == Leaving("Text") /\ Exited(Ok(self))

VisitSection == Entering("section") /\ Entered(Ok([self EXCEPT !.section_level = @ + 1]))

DepartSection == Leaving("section") /\ Exited(Ok([self EXCEPT !.section_level = @ - 1]))

VisitParagraph == Entering("paragraph") /\ Entered(visit_paragraph(self, pos))

DepartParagraph == Leaving("paragraph") /\ Exited(depart_paragraph(self, Top))

VisitBulletList == Entering("bullet_list") /\ Entered(visit_bullet_list(self, pos))

DepartBulletList == Leaving("bullet_list") /\ Exited(depart_bullet_list(self, Top))

VisitEnumeratedList == Entering("enumerated_list") /\ Entered(visit_enumerated_list(self, pos))

DepartEnumeratedList == Leaving("enumerated_list") /\ Exited(depart_enumerated_list(self, Top))

VisitListItem == Entering("list_item") /\ Entered(visit_list_item(self, pos))

DepartListItem == Leaving("list_item") /\ Exited(depart_list_item(self, Top))

VisitTopic == Entering("topic") /\ Entered(visit_topic(self, pos))

DepartTopic == Leaving("topic") /\ Exited(depart_topic(self, Top))

VisitTarget == Entering("target") /\ Entered(visit_target(self, pos))

DepartTarget == Leaving("target") /\ Exited(Ok(Emit(self, "")))

VisitGlossary == Entering("glossary") /\ Entered(Ok([self EXCEPT !.inGlossary = TRUE]))

DepartGlossary == Leaving("glossary") /\ Exited(Ok([self EXCEPT !.inGlossary = FALSE]))

VisitDefinitionList == Entering("definition_list") /\ Entered(Ok(Emit(self, "\n")))

DepartDefinitionList == Leaving("definition_list") /\ Exited(Ok(Emit(self, "\n")))

VisitDefinitionListItem == Entering("definition_list_item") /\ Entered(Ok(Emit(self, "")))

DepartDefinitionListItem == Leaving("definition_list_item") /\ Exited(Ok(Emit(self, "\n")))

VisitTerm == Entering("term") /\ Entered(visit_term(self, pos))

DepartTerm == Leaving("term") /\ Exited(IF self.inGlossary THEN Ok(Emit(self, "\n\n")) ELSE Ok(Emit(self, ":: ")))

VisitDefinition == Entering("definition") /\ Entered(Ok(Emit(self, "\n")))

DepartDefinition == Leaving("definition") /\ Exited(depart_definition(self, Top))

VisitNote == Entering("note") /\ Entered(visit_note(self, pos))

DepartNote == Leaving("note") /\ Exited(depart_note(self, Top))

VisitTip == Entering("tip") /\ Entered(visit_tip(self, pos))

DepartTip == Leaving("tip") /\ Exited(depart_tip(self, Top))

VisitWarning == Entering("warning") /\ Entered(visit_warning(self, pos))

DepartWarning == Leaving("warning") /\ Exited(depart_warning(self, Top))

VisitImportant == Entering("important") /\ Entered(visit_important(self, pos))

DepartImportant == Leaving("important") /\ Exited(depart_important(self, Top))

VisitCaution == Entering("caution") /\ Entered(visit_caution(self, pos))

DepartCaution == Leaving("caution") /\ Exited(depart_caution(self, Top))

VisitReference == Entering("reference") /\ Entered(visit_reference(self, pos))

DepartReference == Leaving("reference") /\ Exited(depart_reference(self, Top))

VisitImage == Entering("image") /\ Entered(visit_image(self, pos))

DepartImage == Leaving("image") /\ Exited(IF self.inFigure THEN Ok(self) ELSE Ok(Emit(self, "\n\n")))

VisitFigure == Entering("figure") /\ Entered(visit_figure(self, pos))

DepartFigure == Leaving("figure") /\ Exited(depart_figure(self, Top))

VisitCaption == Entering("caption") /\ Entered(visit_caption(self, pos))

DepartCaption == Leaving("caption") /\ Exited(depart_caption(self, Top))

VisitLegend == Entering("legend") /\ Entered(visit_legend(self, pos))

DepartLegend == Leaving("legend") /\ Exited(depart_legend(self, Top))

VisitCompound ==
    /\ Entering("compound")
    /\ Entered(Ok(Emit([self EXCEPT !.inToctree = TRUE], "")))

DepartCompound ==
    /\ Leaving("compound")
    /\ Exited(Ok([Emit(self, "\n") EXCEPT !.inToctree = FALSE]))

VisitLiteralBlock ==
    LET node == NodeAt(pos)
        t == [self EXCEPT !.inLiteralBlock = TRUE]
        cls == IF "classes" \in DOMAIN node THEN node.classes ELSE <<>>
        coded == Len(cls) > 0 /\ cls[1] = "code"
        attributes ==
            (IF "language" \in DOMAIN node THEN "source," \o node.language
             ELSE IF coded /\ cls[2] # "" THEN "source," \o cls[2]
             ELSE "")
        linenums == "linenos" \in DOMAIN node /\ node.linenos = TRUE
        joined == IF linenums
                  THEN (IF attributes = "" THEN "linenums"
                        ELSE attributes \o ",linenums")
                  ELSE attributes
        nline == IF t.inAdmonition THEN "----"
                 ELSE IF Len(t.lists) > 0 THEN "+----"
                 ELSE "----"
    IN  /\ Entering("literal_block")
        /\ Entered(IF coded /\ Len(cls) < 2 THEN Raise(t, "IndexError")
                   ELSE Ok(Emit(t, "\n[" \o joined \o "]\n" \o nline \o "\n")))

DepartLiteralBlock ==
    /\ Leaving("literal_block")
    /\ Exited(Ok([Emit(self, "\n----\n") EXCEPT !.inLiteralBlock = FALSE]))

VisitTable == Entering("table") /\ Entered(Ok([self EXCEPT !.inTable = TRUE]))

DepartTable == Leaving("table") /\ Exited(Ok([self EXCEPT !.inTable = FALSE]))

VisitTgroup == Entering("tgroup") /\ Entered(visit_tgroup(self, pos))

DepartTgroup == Leaving("tgroup") /\ Exited(Ok(Emit(self, "|===\n")))

VisitColspec == Entering("colspec") /\ Entered(Ok(self))

DepartColspec == Leaving("colspec") /\ Exited(Ok(self))

\* specs = node.get("spec").split("|"); del specs[-1]; del specs[0]
VisitTabularColSpec ==
    LET node == NodeAt(pos)
        RECURSIVE Split(_)
        Split(str) ==
            IF ~Contains(str, "|") THEN <<str>>
            ELSE LET head == BeforeFirst(str, "|")
                 IN  <<head>> \o Split(SubSeq(str, Len(head) + 2, Len(str)))
        parts == Split(node.spec)
    IN  /\ Entering("tabular_col_spec")
        /\ Entered(IF "spec" \notin DOMAIN node THEN Raise(self, "AttributeError")
                   ELSE IF Len(parts) = 1 THEN Raise(self, "IndexError")
                   ELSE Ok([self EXCEPT
                              !.tabColSpecs = SubSeq(parts, 2, Len(parts) - 1)]))

DepartTabularColSpec == Leaving("tabular_col_spec") /\ Exited(Ok(self))

VisitTbody == Entering("tbody") /\ Entered(Ok(self))

DepartTbody == Leaving("tbody") /\ Exited(Ok(self))

VisitRow == Entering("row") /\ Entered(Ok(self))

DepartRow == Leaving("row") /\ Exited(Ok(Emit(self, "\n")))

VisitEntry == Entering("entry") /\ Entered(Ok(Emit(self, "|")))

DepartEntry == Leaving("entry") /\ Exited(Ok(self))

VisitFootnoteReference ==
    LET refid == Get(NodeAt(pos), "refid")
    IN  /\ Entering("footnote_reference")
        /\ Entered(IF refid = None THEN Raise(self, "TypeError")
                   ELSE Ok(Emit(self, "footnoteref:[" \o SubSeq(refid, 1, 1) \o ",")))

DepartFootnoteReference ==
    Leaving("footnote_reference") /\ Exited(Ok(Emit(self, "] ")))

VisitProductionlist ==
    Entering("productionlist") /\ Entered(Ok(Emit(self, "PRODUCTIONLIST:")))

\* nodes.NodeVisitor.unknown_visit, which the translator inherits and does
\* not override: a node kind without a visit_ method raises.
UnknownVisit ==
    /\ raised = ""
    /\ pos <= Len(doc)
    /\ doc[pos].ev = "visit"
    /\ doc[pos].node.kind \notin VisitRules
    /\ Entered(Raise(self, "NotImplementedError"))

\* nodes.NodeVisitor.unknown_departure.  The depart_ methods are those of
\* the visit_ methods, but depart_production_list stands where
\* depart_productionlist would be.
UnknownDeparture ==
    /\ raised = ""
    /\ pos <= Len(doc)
    /\ doc[pos].ev = "depart"
    /\ doc[pos].node.kind \notin (VisitRules \ {"productionlist"}) \cup {"production_list"}
    /\ Exited(Raise(self, "NotImplementedError"))

VisitLineBlock ==
    Entering("line_block") /\ Entered(Ok(Emit([self EXCEPT !.inLineBlock = TRUE], "\n")))

DepartLineBlock ==
    Leaving("line_block") /\ Exited(Ok([Emit(self, " ") EXCEPT !.inLineBlock = FALSE]))

VisitLine == Entering("line") /\ Entered(Ok(Emit(self, "")))

DepartLine == Leaving("line") /\ Exited(Ok(Emit(self, "\n")))

Next ==
    \/ VisitDocument \/ DepartDocument
    \/ VisitTitle \/ DepartTitle
    \/ VisitText \/ DepartText
    \/ VisitSection \/ DepartSection
    \/ VisitParagraph \/ DepartParagraph
    \/ VisitBulletList \/ DepartBulletList
    \/ VisitEnumeratedList \/ DepartEnumeratedList
    \/ VisitListItem \/ DepartListItem
    \/ VisitTopic \/ DepartTopic
    \/ VisitTarget \/ DepartTarget
    \/ VisitGlossary \/ DepartGlossary
    \/ VisitDefinitionList \/ DepartDefinitionList
    \/ VisitDefinitionListItem \/ DepartDefinitionListItem
    \/ VisitTerm \/ DepartTerm
    \/ VisitDefinition \/ DepartDefinition
    \/ VisitNote \/ DepartNote
    \/ VisitTip \/ DepartTip
    \/ VisitWarning \/ DepartWarning
    \/ VisitImportant \/ DepartImportant
    \/ VisitCaution \/ DepartCaution
    \/ VisitReference \/ DepartReference
    \/ VisitImage \/ DepartImage
    \/ VisitFigure \/ DepartFigure
    \/ VisitCaption \/ DepartCaption
    \/ VisitLegend \/ DepartLegend
    \/ VisitCompound \/ DepartCompound
    \/ VisitLiteralBlock \/ DepartLiteralBlock
    \/ VisitTable \/ DepartTable
    \/ VisitTgroup \/ DepartTgroup
    \/ VisitColspec \/ DepartColspec
    \/ VisitTabularColSpec \/ DepartTabularColSpec
    \/ VisitTbody \/ DepartTbody
    \/ VisitRow \/ DepartRow
    \/ VisitEntry \/ DepartEntry
    \/ VisitFootnoteReference \/ DepartFootnoteReference
    \/ VisitProductionlist
    \/ VisitLineBlock \/ DepartLineBlock
    \/ VisitLine \/ DepartLine
    \/ UnknownVisit \/ UnknownDeparture

Spec == Init /\ [][Next]_vars

(***************************************************************************)
(* Two translate() calls on one document tree, each with the translator    *)
(* it created (writer.py 33-36), their rules interleaved in any order.     *)
(* All the state a rule reads or writes is an attribute of its own         *)
(* instance (__init__, 105-149); the module-level tables are only read and *)
(* no rule writes to a node of the tree.                                   *)
(***************************************************************************)
\* A document for each group of rules, so that two runs exercise every rule.
PairDocuments ==
    LET Item(content) == Wrap(Elem("list_item"), content)
        Target(refid) == Wrap([kind |-> "target", ids |-> <<>>, refid |-> refid], <<>>)
        Col(w) == Wrap([kind |-> "colspec", colwidth |-> w], <<>>)
    IN  { DocumentOf(f) :
            f \in { Wrap(Elem("section"),
                         Titled("T") \o Target("a") \o Target("a")
                             \o Wrap(Elem("bullet_list"),
                                     Item(Wrap(EnumeratedList, Item(Para("x")))))),
                    Wrap([kind |-> "topic", classes |-> <<"contents">>,
                          ids |-> <<"contents">>], Para("c"))
                        \o Wrap(Elem("glossary"),
                                Wrap(Elem("definition_list"),
                                     Wrap(Elem("definition_list_item"),
                                          Wrap(Elem("term"), TextNode("t"))
                                              \o Wrap(Elem("definition"), Para("d"))))),
                    Wrap(Elem("note"), Para("n")) \o Wrap(Elem("tip"), Para("t"))
                        \o Wrap(Elem("warning"), Para("w")),
                    Wrap(Elem("important"), Para("i")) \o Wrap(Elem("caution"), Para("c")),
                    Wrap(Elem("figure"),
                         Image("f.png") \o Wrap(Elem("caption"), TextNode("c"))
                             \o Wrap(Elem("legend"), Para("l")))
                        \o Wrap(Elem("paragraph"), Reference("http://x", TextNode("x"))),
                    Wrap(Elem("compound"), Para("c"))
                        \o Wrap(Elem("literal_block"), TextNode("c"))
                        \o Wrap(Elem("line_block"), Wrap(Elem("line"), TextNode("a"))),
                    Wrap([kind |-> "tabular_col_spec", spec |-> "|r|c|"], <<>>)
                        \o Wrap(Elem("table"),
                                Wrap([kind |-> "tgroup", cols |-> 2],
                                     Col(30) \o Col(70)
                                         \o Wrap(Elem("tbody"),
                                                 Wrap(Elem("row"),
                                                      Wrap(Elem("entry"), Para("a")))))),
                    Wrap(Elem("paragraph"),
                         Wrap([kind |-> "footnote_reference", refid |-> "id1"],
                              TextNode("1")))
                        \o Wrap(Elem("productionlist"), <<>>),
                    Wrap(Elem("paragraph"), Wrap(Elem("math"), TextNode("x"))) } }

\* The instance that runs, as it is kept while the other one runs.
Running ==
    [self |-> self, pos |-> pos, path |-> path, raised |-> raised,
     mark |-> mark, left |-> left]

InitPair ==
    /\ doc \in PairDocuments
    /\ pos = 1
    /\ path = <<>>
    /\ self \in { [NewTranslator EXCEPT !.defaultTableColWidths = widths] :
                     widths \in BOOLEAN }
    /\ raised = ""
    /\ mark = 0
    /\ left = [at |-> 0, section_level |-> 0, lists |-> 0]
    /\ other = <<Running>>

\* A switch that hands the id registry of the instance that ran to the one
\* that runs next, as a registry kept on the class would be.
SwitchSharingRegistry ==
    /\ other # <<>>
    /\ self' = [other[1].self EXCEPT !.idPool = self.idPool]
    /\ pos' = other[1].pos
    /\ path' = other[1].path
    /\ raised' = other[1].raised
    /\ mark' = other[1].mark
    /\ left' = other[1].left
    /\ other' = <<Running>>
    /\ UNCHANGED doc

\* The other call gets to run: nothing of an instance is carried over.
Switch ==
    /\ other # <<>>
    /\ self' = other[1].self
    /\ pos' = other[1].pos
    /\ path' = other[1].path
    /\ raised' = other[1].raised
    /\ mark' = other[1].mark
    /\ left' = other[1].left
    /\ other' = <<Running>>
    /\ UNCHANGED doc

NextPair == Next \/ Switch

SpecPair == InitPair /\ [][NextPair]_vars

(***************************************************************************)
(* What the last rule did.                                                 *)
(***************************************************************************)
\* The fragments the last rule appended to self.body.
Appended == SubSeq(self.body, mark + 1, Len(self.body))

JustVisited(kinds) ==
    pos > 1 /\ doc[pos - 1].ev = "visit" /\ doc[pos - 1].node.kind \in kinds

JustDeparted(kinds) ==
    pos > 1 /\ doc[pos - 1].ev = "depart" /\ doc[pos - 1].node.kind \in kinds

\* The node whose rule ran last.
Last == IF doc[pos - 1].ev = "visit" THEN pos - 1 ELSE left.at

ListKinds == {"bullet_list", "enumerated_list"}

AdmonitionKinds == {"note", "tip", "warning", "important", "caution"}

(***************************************************************************)
(* Nesting counters.                                                       *)
(***************************************************************************)
\* C1: the list stack length and the section depth are never negative, and
\* after the exit rule of any node both have the values they had just before
\* that node's entry rule ran.  A term and a definition are left out: one
\* raises the depth and the other lowers it, and the claim is read for the
\* nodes that hold both.
C1_CountersRestored ==
    /\ self.section_level >= 0
    /\ Len(self.lists) >= 0
    /\ (pos > 1 /\ doc[pos - 1].ev = "depart"
            /\ doc[pos - 1].node.kind \notin {"term", "definition"}) =>
           /\ self.section_level = left.section_level
           /\ Len(self.lists) = left.lists

(***************************************************************************)
(* Target identifiers.                                                     *)
(***************************************************************************)
DeclarationTokens ==
    {k \in 1..Len(self.body) : StartsWith(self.body[k], "[id=\"")}

\* C2: no identifier appears in more than one [id="..."] token of the
\* output buffer.
C2_NoIdDeclaredTwice ==
    \A j, k \in DeclarationTokens : j # k => self.body[j] # self.body[k]

IsPrefix(a, b) == Len(a) <= Len(b) /\ SubSeq(b, 1, Len(a)) = a

NoRepeats(seq) == \A j, k \in 1..Len(seq) : j # k => seq[j] # seq[k]

\* One step of the registry: visit_target of a node with refid X records X
\* when X is new, and X-duplicate when X is taken and X-duplicate is new; no
\* rule removes or rewrites an entry.
RegistryStep ==
    /\ IsPrefix(self.idPool, self'.idPool)
    /\ (/\ raised = ""
        /\ pos <= Len(doc)
        /\ doc[pos].ev = "visit"
        /\ doc[pos].node.kind = "target"
        /\ Truthy(Get(doc[pos].node, "refid"))) =>
           LET X == doc[pos].node.refid
           IN  /\ ~In(X, self.idPool) => self'.idPool = Append(self.idPool, X)
               /\ (In(X, self.idPool) /\ ~In(X \o "-duplicate", self.idPool)) =>
                      self'.idPool = Append(self.idPool, X \o "-duplicate")

\* C3: two targets with the same refid X are recorded as X and X-duplicate,
\* idPool never holds a string twice and never loses an entry.
C3_RegistryDistinct == [](NoRepeats(self.idPool)) /\ [][RegistryStep]_vars

\* Two targets with refid "a" have been visited, nothing else claims
\* "a-duplicate", and the registry holds both identifiers.
C3_Witness ==
    /\ \E j, k \in 1..(pos - 1) :
           /\ j < k
           /\ doc[j] = Visit([kind |-> "target", ids |-> <<>>, refid |-> "a"])
           /\ doc[k] = doc[j]
    /\ self.idPool = <<"a", "a-duplicate">>

(***************************************************************************)
(* Figures.                                                                *)
(***************************************************************************)
\* C4: the figure stage buffer is empty immediately before every
\* visit_figure and immediately after every depart_figure.
C4_FigureBufferEmpty ==
    /\ (raised = "" /\ pos <= Len(doc) /\ doc[pos] = Visit(Elem("figure"))) =>
           self.lastFigure = NoFigure
    /\ JustDeparted({"figure"}) => self.lastFigure = NoFigure

\* The parts a figure's own subtree holds.
OwnParts(i) == Stash(NoFigure, Traverse(i))

\* C5: the exit of a figure appends the title line, the link line and the
\* image line of the figure's own caption (and legend), reference and image,
\* in this order, and no line for a part the figure does not have.
C5_FigureLinesInOrder ==
    JustDeparted({"figure"}) =>
        LET own == OwnParts(Last)
        IN  /\ raised = ""
            /\ Appended =
                   (IF own.caption # 0 \/ own.legend # 0
                    THEN <<FigureTitle(own)>> ELSE <<>>)
                   \o (IF own.ref # 0 THEN <<FigureLink(own)>> ELSE <<>>)
                   \o (IF own.image # 0 THEN <<FigureImage(own)>> ELSE <<>>)

(***************************************************************************)
(* Admonitions.                                                            *)
(***************************************************************************)
\* C6: the entry rule of each admonition kind sets inAdmonition, the exit
\* rule clears it.
C6_AdmonitionFlag ==
    /\ JustVisited(AdmonitionKinds) => self.inAdmonition = TRUE
    /\ JustDeparted(AdmonitionKinds) => self.inAdmonition = FALSE

LabelOf(kind) ==
    CASE kind = "note" -> "NOTE"
      [] kind = "tip" -> "TIP"
      [] kind = "warning" -> "WARNING"
      [] kind = "important" -> "IMPORTANT"
      [] kind = "caution" -> "CAUTION"

\* C7: inside a bulleted or enumerated list an admonition with label L opens
\* with "+\n[L]\n====\n" and closes with "====\n\n"; inside no list it opens
\* with "\n[L]\n====\n" and closes with "====\n".
C7_AdmonitionDelimiters ==
    /\ JustVisited(AdmonitionKinds) =>
           /\ raised = ""
           /\ Appended =
                  <<(IF Inside(Last, ListKinds) THEN "+" ELSE "")
                        \o "\n[" \o LabelOf(KindAt(Last)) \o "]\n====\n">>
    /\ JustDeparted(AdmonitionKinds) =>
           /\ raised = ""
           /\ Appended = <<IF Inside(Last, ListKinds) THEN "====\n\n" ELSE "====\n">>

\* An admonition has just closed inside a list item, after an inner list of
\* the same item has closed.
C7_Witness ==
    /\ JustDeparted(AdmonitionKinds)
    /\ Inside(Last, ListKinds)
    /\ Last > 1
    /\ doc[Last - 1].ev = "depart"
    /\ doc[Last - 1].node.kind \in ListKinds
    /\ Appended = <<"====\n\n">>

(***************************************************************************)
(* List items.                                                             *)
(***************************************************************************)
\* A list item that gets a prefix: not of the toctree category, not silenced
\* by the contents topic.
PrefixedItem ==
    /\ JustVisited({"list_item"})
    /\ ~HasToctreeClass(Get(NodeAt(Last), "classes"))
    /\ ~TocSuppressed(self)

\* C8: at list depth d in 1..5 the prefix of a list item is d "*" and a space
\* when the list on top of the stack is bulleted, d "." and a space when it
\* is enumerated.
C8_PrefixByTopOfStack ==
    (PrefixedItem /\ Len(self.lists) \in 1..5) =>
        LET d == Len(self.lists)
            mark_char == IF self.lists[d] = "bulleted" THEN "*" ELSE "."
        IN  Appended = <<Repeat(mark_char, d) \o " ">>

\* C9: a list item at list depth 6 or more does not raise and renders the
\* depth-5 prefix with a diagnostic.
C9_DeepItemRenders ==
    (PrefixedItem /\ Len(self.lists) >= 6) =>
        /\ raised = ""
        /\ Appended # <<>>
        /\ \E k \in 1..Len(Appended) :
               Contains(Appended[k], "***** ") \/ Contains(Appended[k], "..... ")

(***************************************************************************)
(* Headings.                                                               *)
(***************************************************************************)
\* C10: outside a suppressed contents topic, a title whose parent is a
\* section appends, at section depth n in 1..5, a marker of n+1 "=" and a
\* space; a title whose parent is the document appends "=" and a space.
C10_HeadingMarker ==
    (JustVisited({"title"}) /\ ~TocSuppressed(self)) =>
        /\ (ParentKind(Last) = "section" /\ self.section_level \in 1..5) =>
               Appended = <<"\n" \o Repeat("=", self.section_level + 1) \o " ">>
        /\ ParentKind(Last) = "document" => Appended = <<"\n\n= ">>

\* A title has just been visited in the fifth of five nested sections.
C10_Witness ==
    /\ JustVisited({"title"})
    /\ ParentKind(Last) = "section"
    /\ self.section_level = 5
    /\ Appended = <<"\n====== ">>

\* The title of a section has just been visited, outside a suppressed
\* contents topic, at a section depth the heading table does not hold.
DeepTitle ==
    /\ pos > 1 /\ doc[pos - 1].ev = "visit" /\ doc[pos - 1].node.kind = "title"
    /\ ParentKind(pos - 1) = "section"
    /\ self.section_level > 5
    /\ ~TocSuppressed(self)

InSilentContext(i) == Inside(i, {"figure", "literal_block", "topic"})

WrapsImage(i) ==
    \E j \in (i + 1)..(Close(i) - 1) : doc[j].ev = "visit" /\ KindAt(j) = "image"

\* The text of uri from its first "#" on, "" when it has none.
RECURSIVE FromHash(_)
FromHash(uri) ==
    IF uri = "" THEN ""
    ELSE IF Head(uri) = "#" THEN uri
    ELSE FromHash(Tail(uri))

\* The branch of the priority order that reference i matches first, read
\* from its attributes and its place in the tree.
Branch(i) ==
    LET n == NodeAt(i)
    IN  IF WrapsImage(i) THEN 1
        ELSE IF /\ "internal" \in DOMAIN n /\ n.internal = TRUE
                /\ Get(n, "anchorname") = ""
                /\ Inside(i, {"compound"}) THEN 2
        ELSE IF Truthy(Get(n, "refuri")) /\ Truthy(Get(n, "name")) THEN 3
        ELSE IF Truthy(Get(n, "refid")) THEN 4
        ELSE IF Truthy(Get(n, "refuri")) THEN 5
        ELSE 6

\* An address-only reference whose fragment is its own anchor name.
SelfAnchor(i) ==
    /\ Branch(i) = 5
    /\ FromHash(NodeAt(i).refuri) # ""
    /\ Get(NodeAt(i), "anchorname") = FromHash(NodeAt(i).refuri)

\* The entry rule of a reference has just returned, outside the silent
\* contexts.
ReferenceEntered ==
    JustVisited({"reference"}) /\ raised = "" /\ ~InSilentContext(Last)

\* C12: visit_reference appends the opening token of the first branch the
\* reference matches, in the order image-link, include, link with address
\* and name, cross-reference by refid, address-only, nothing; at most that
\* one token is appended.
C12_BranchPriority ==
    ReferenceEntered =>
        LET n == NodeAt(Last)
            uri == Get(n, "refuri")
        IN  CASE Branch(Last) = 1 -> Appended = <<"\n[link::" \o uri \o "]">>
              [] Branch(Last) = 2 ->
                     Appended = <<"include::" \o uri \o "[leveloffset=+1][">>
              [] Branch(Last) = 3 ->
                     Appended \in {<<uri \o "[">>, <<"link:++" \o uri \o "[">>}
              [] Branch(Last) = 4 ->
                     Appended = IF Inside(Last, {"compound"}) THEN <<>>
                                ELSE <<"xref:" \o n.refid \o "[">>
              [] Branch(Last) = 5 ->
                     /\ Len(Appended) = 1
                     /\ ~StartsWith(Appended[1], "\n[link::")
                     /\ ~StartsWith(Appended[1], "include::")
              [] OTHER -> Appended = <<>>

\* C13: the entry of a self-referential anchor appends the comment marker,
\* and no rule of a descendant appends anything before the reference's exit.
C13_SelfAnchorSilencesSubtree ==
    /\ (ReferenceEntered /\ SelfAnchor(Last)) => Appended = <<"\n//">>
    /\ \A j \in 1..(pos - 2) :
           (/\ doc[j].ev = "visit" /\ KindAt(j) = "reference"
            /\ SelfAnchor(j) /\ ~InSilentContext(j)
            /\ pos - 1 < Close(j)) => Appended = <<>>

\* C14: an address-only reference whose address has a fragment opens, when
\* the address names an .adoc document, with a cross-reference that carries
\* the file and the fragment, and otherwise, when the address starts with
\* mailto or http, with the address itself.
C14_AddressWithFragment ==
    (/\ ReferenceEntered /\ Branch(Last) = 5
     /\ Len(FromHash(NodeAt(Last).refuri)) > 1) =>
        LET uri == NodeAt(Last).refuri
            fragment == Tail(FromHash(uri))
            file == SubSeq(uri, 1, Len(uri) - Len(fragment) - 1)
        IN  /\ Contains(file, ".adoc") =>
                /\ Len(Appended) = 1
                /\ StartsWith(Appended[1], "xref:")
                /\ Contains(Appended[1], file)
                /\ Contains(Appended[1], fragment)
            /\ (/\ ~Contains(file, ".adoc")
                /\ StartsWith(uri, "mailto") \/ StartsWith(uri, "http")) =>
                Appended = <<uri \o "[">>

\* C15: depart_reference appends "]" exactly when the entry of the same
\* reference appended a token that ends in "[": not for an image link, not
\* for a refid inside a toctree, not for a self-referential anchor, not for
\* a reference that matches no branch.
C15_BracketsBalanced ==
    (JustDeparted({"reference"}) /\ raised = "" /\ ~InSilentContext(Last)) =>
        LET opens ==
                \/ Branch(Last) \in {2, 3}
                \/ Branch(Last) = 4 /\ ~Inside(Last, {"compound"})
                \/ Branch(Last) = 5 /\ ~SelfAnchor(Last)
        IN  Appended = IF opens THEN <<"]">> ELSE <<>>

(***************************************************************************)
(* Tables.                                                                 *)
(***************************************************************************)
\* The colwidths of the colspec nodes of the table whose tgroup is node i.
OwnWidths(i) ==
    LET cs == SelectSeq(Children(i), LAMBDA j : KindAt(j) = "colspec")
    IN  [k \in 1..Len(cs) |-> NodeAt(cs[k]).colwidth]

\* The integers nearest to 100 * w / total.
Nearest(w, total) ==
    { p \in 0..100 :
        LET d == 100 * w - p * total
        IN  2 * (IF d < 0 THEN -d ELSE d) <= total }

\* The header lines that give each column some alignment and one of the
\* percentages allowed for it (allowed[k] is a set of integers).
RECURSIVE Columns(_)
Columns(allowed) ==
    IF allowed = <<>> THEN {""}
    ELSE { a \o ToString(p) \o "%" \o (IF Len(allowed) = 1 THEN "" ELSE ",") \o rest :
             a \in {"", "<", ">", "^"}, p \in Head(allowed),
             rest \in Columns(Tail(allowed)) }

HeaderLines(allowed) ==
    { "[cols=\"" \o cline \o "\",options=\"header\"]\n|===\n" :
        cline \in Columns(allowed) }

\* C16: with width percentages enabled visit_tgroup emits, for column i of
\* the table, the integer nearest to 100 * w_i / W, W the sum of the
\* colwidths of the table's own colspec nodes (30 and 70 for the widths 30
\* and 70); with the option disabled it emits no width.  A visit_tgroup
\* that raised is counted only when no alignment spec is stored, so that
\* the raise is not the one of a spec shorter than the table.
C16_WidthPercentages ==
    (JustVisited({"tgroup"}) /\ (raised = "" \/ self.tabColSpecs = <<>>)) =>
        LET ws == OwnWidths(Last)
            total == LET RECURSIVE Sum(_)
                         Sum(s) == IF s = <<>> THEN 0 ELSE Head(s) + Sum(Tail(s))
                     IN  Sum(ws)
        IN  IF self.defaultTableColWidths
            THEN /\ raised = ""
                 /\ Len(Appended) = 1
                 /\ Appended[1] \in
                        HeaderLines([k \in 1..Len(ws) |-> Nearest(ws[k], total)])
                 /\ ws = <<30, 70>> => Appended[1] \in HeaderLines(<<{30}, {70}>>)
            ELSE Appended = <<"[options=\"header\"]\n|===\n">>

\* Whether a tabular_col_spec was supplied for the table whose tgroup is
\* node i: it is the node just before the table.
SpecSupplied(i) ==
    /\ i > 2
    /\ doc[i - 2].ev = "depart"
    /\ doc[i - 2].node.kind = "tabular_col_spec"

\* Whether the table whose tgroup is node i holds another table.
HoldsTable(i) ==
    \E j \in (i + 1)..(Close(i) - 1) : doc[j].ev = "visit" /\ KindAt(j) = "tgroup"

\* C17: a table for which no alignment spec was supplied renders every
\* column with the default alignment, whatever was supplied for earlier
\* tables, and visit_tgroup does not raise when the supplied spec lists
\* fewer columns than the table declares.  A visit_tgroup that raised on
\* a table holding another table is left to C16.
C17_DefaultAlignment ==
    (JustVisited({"tgroup"}) /\ (raised = "" \/ ~HoldsTable(Last))) =>
        /\ raised = ""
        /\ ~SpecSupplied(Last) =>
               LET default == self.defaultTableColAlign
               IN  \A line \in { Appended[k] : k \in 1..Len(Appended) } :
                       \A a \in {"<", ">", "^"} \ {default} : ~Contains(line, a)

\* Whether the event at position i is for a kind the translator has no
\* rule for: no visit_ method on entry, no depart_ method on exit.
Ruleless(i) ==
    IF doc[i].ev = "visit" THEN KindAt(i) \notin VisitRules
    ELSE KindAt(i) \notin (VisitRules \ {"productionlist"}) \cup {"production_list"}

\* C18: entering or leaving a node whose kind has no rule is a no-op: no
\* exception is raised and nothing is appended to the output buffer.
C18_UnknownKindIsNoOp ==
    (pos > 1 /\ Ruleless(pos - 1)) => (raised = "" /\ Appended = <<>>)

\* Whether the node visited at position i lacks an attribute or a child
\* that its entry rule reads.
Lacking(i) ==
    LET n == NodeAt(i)
    IN  \/ n.kind = "reference" /\ Traverse(i) = <<>>
        \/ n.kind = "enumerated_list" /\ "enumtype" \notin DOMAIN n
        \/ n.kind = "footnote_reference" /\ "refid" \notin DOMAIN n
        \/ n.kind = "tgroup" /\ "cols" \notin DOMAIN n
        \/ n.kind = "document" /\ "source" \notin DOMAIN n
        \/ n.kind = "tabular_col_spec" /\ "spec" \notin DOMAIN n

\* C19: no entry rule raises because an attribute or a child is absent
\* from its node; the rule returns and the traversal goes on.
C19_MissingDataDoesNotRaise ==
    (pos > 1 /\ doc[pos - 1].ev = "visit" /\ Lacking(pos - 1)) => raised = ""

\* C20: once the traversal of a document has completed, the transient
\* context is back at its initial value: the list stack is empty, the
\* section depth is 0 and every mode flag is false.
C20_ContextUnwinds ==
    (pos > Len(doc) /\ raised = "") =>
        /\ self.lists = <<>>
        /\ self.section_level = 0
        /\ \A flag \in {"inTable", "inList", "inField", "inFigure", "inAdmonition",
                         "inLiteralBlock", "inLineBlock", "inToctree", "inGlossary",
                         "inTopicContents", "inImgLink", "inUseless",
                         "extLinkActive"} : self[flag] = FALSE

(***************************************************************************)
(* Line blocks and literal blocks.                                         *)
(***************************************************************************)
\* C21: a rendered text node gets the line-continuation suffix " +" exactly
\* when it lies inside a line block, also when it follows a nested line
\* block inside that block.
C21_LineContinuation ==
    (JustVisited({"Text"}) /\ raised = "" /\ Appended # <<>>) =>
        LET text == NodeAt(pos - 1).text
        IN  IF Inside(pos - 1, {"line_block"})
            THEN Appended = <<text \o " +">>
            ELSE Appended = <<text>>

\* C22: the opening delimiter of a literal block is "+----" when the block
\* lies inside a bulleted or enumerated list and "----" otherwise, whatever
\* admonitions are open or have closed; the closing delimiter is "----".
C22_LiteralDelimiter ==
    /\ (JustVisited({"literal_block"}) /\ raised = "") =>
           Appended = <<"\n[]\n"
                          \o (IF Inside(pos - 1, ListKinds) THEN "+----" ELSE "----")
                          \o "\n">>
    /\ (JustDeparted({"literal_block"}) /\ raised = "") => Appended = <<"\n----\n">>

C24_AppendOnly ==
    [][/\ IsPrefix(self.body, self'.body)
       /\ StartsWith(translator_astext(self'), translator_astext(self))]_vars

C24_Witness ==
    /\ JustDeparted({"figure"})
    /\ raised = ""
    /\ mark > 1
    /\ Len(Appended) > 1
    /\ translator_astext(self) # ""

\* C25: between a figure's entry and its exit the entry and exit rules of
\* the image, caption, legend, reference and text nodes of its subtree
\* append nothing, also for nodes that follow a nested figure.
C25_FigureSubtreeSilent ==
    LET staged == {"image", "caption", "legend", "reference", "Text"}
    IN  ((JustVisited(staged) \/ JustDeparted(staged))
            /\ raised = "" /\ Inside(Last, {"figure"})) => Appended = <<>>

(***************************************************************************)
(* Column alignment, list bookkeeping, flags.                              *)
(***************************************************************************)
\* The alignment of one column by the claimed rule.
Normalized(spec, default) ==
    IF spec \in {"r", "R"} THEN ">"
    ELSE IF spec \in {"c", "C"} THEN "^"
    ELSE default

\* The columns of the spec supplied for the table whose tgroup is node i:
\* the one-character fields between the bars of "|a|b|".
SuppliedColumns(i) ==
    LET spec == doc[i - 2].node.spec
    IN  [k \in 1..((Len(spec) - 1) \div 2) |-> SubSeq(spec, 2 * k, 2 * k)]

\* C26: visit_tgroup normalizes the alignment of each column from the spec
\* of that column alone: "r" and "R" give ">", "c" and "C" give "^", any
\* other spec gives the configured default.
C26_AlignmentPerColumn ==
    (JustVisited({"tgroup"}) /\ raised = "" /\ SpecSupplied(Last)) =>
        LET raw == SuppliedColumns(Last)
        IN  self.tabColSpecs =
                [k \in 1..Len(raw) |-> Normalized(raw[k], self.defaultTableColAlign)]

\* C27: in every state of a traversal the list counter and the list flag
\* agree with the list stack: turnsInList is the length of self.lists and
\* inList is true exactly when self.lists is not empty.
C27_ListBookkeeping ==
    /\ self.turnsInList = Len(self.lists)
    /\ self.inList <=> self.lists # <<>>

C27_Witness ==
    /\ JustDeparted(ListKinds)
    /\ raised = ""
    /\ self.lists = <<"numbered">>
    /\ self.turnsInList = 1
    /\ self.inList

\* C28: the exit of a reference leaves the image-link flag false in every
\* context, also inside a figure and inside the suppressed contents topic.
C28_ImageLinkCleared ==
    (JustDeparted({"reference"}) /\ raised = "") => ~self.inImgLink

\* Whether the node visited at position i is the contents topic.
ContentsTopicAt(i) ==
    /\ KindAt(i) = "topic"
    /\ "classes" \in DOMAIN NodeAt(i) /\ NodeAt(i).classes = <<"contents">>
    /\ "ids" \in DOMAIN NodeAt(i) /\ NodeAt(i).ids = <<"contents">>

\* C29: the exit of a topic that is not the contents topic leaves
\* inTopicContents as it was, so the flag stays true until the contents
\* topic's own exit, and depart_bullet_list never pops an empty stack.
C29_ContentsFlagScope ==
    /\ (JustDeparted({"topic"}) /\ ~ContentsTopicAt(Last)
           /\ \E j \in 1..(Last - 1) :
                  doc[j].ev = "visit" /\ ContentsTopicAt(j) /\ Close(j) > Last)
          => self.inTopicContents
    /\ JustDeparted({"bullet_list"}) => raised = ""

(***************************************************************************)
(* The registration loop.                                                  *)
(***************************************************************************)
\* One run of the loop of visit_target on refid X, n its number of
\* iterations (each appends one declaration): the candidates X, X-duplicate,
\* ... of the n - 1 failed iterations were in the registry, the last
\* candidate was not and is recorded, and n is at most len(idPool) + 1.
RegistrationStep ==
    (/\ raised = ""
     /\ pos <= Len(doc)
     /\ doc[pos].ev = "visit"
     /\ doc[pos].node.kind = "target"
     /\ Truthy(Get(doc[pos].node, "refid"))) =>
        LET X == doc[pos].node.refid
            n == Len(self'.body) - Len(self.body)
            Candidate(k) == X \o Repeat("-duplicate", k)
        IN  /\ raised' = ""
            /\ n \in 1..(Len(self.idPool) + 1)
            /\ \A k \in 0..(n - 2) : In(Candidate(k), self.idPool)
            /\ ~In(Candidate(n - 1), self.idPool)
            /\ self'.idPool = Append(self.idPool, Candidate(n - 1))
            /\ self'.body[Len(self'.body)] = IdDeclaration(Candidate(n - 1))

\* C30: the registration loop of visit_target terminates: every failed
\* attempt lengthens the candidate by "-duplicate", and after at most
\* len(idPool) + 1 attempts a candidate not in the registry is found,
\* recorded, and the loop exits.
C30_RegistrationTerminates == [][RegistrationStep]_vars

\* A third target with refid "a" has been registered at the third attempt,
\* with two identifiers in the registry before it.
C30_Witness ==
    /\ JustVisited({"target"})
    /\ raised = ""
    /\ Len(Appended) = 3
    /\ self.idPool = <<"a", "a-duplicate", "a-duplicate-duplicate">>

====
